---- MODULE Spec2Model ----
(***************************************************************************)
(* The image-hosting server of src/app.py as a state machine: the module   *)
(* level Database object `db`, the images table it talks to, the upload    *)
(* directory, and the request handlers of ImageHostingHandler run by the   *)
(* single-threaded http.server.HTTPServer (one request at a time).         *)
(*                                                                         *)
(* Environment: the PostgreSQL server can become unreachable and reachable *)
(* again between any two steps of the program; os.remove and the write of  *)
(* an uploaded file can raise.  uuid4 is taken to be collision free and    *)
(* the database clock to be strictly increasing.  Byte strings are         *)
(* abstracted to their lengths.                                            *)
(***************************************************************************)
EXTENDS Integers, Sequences, FiniteSets, TLC

(***************************************************************************)
(* Bounds of the model.                                                    *)
(***************************************************************************)
\* Number of generated file names (uploads that reach the disk).
MaxUploads == 2
\* Largest file part a client sends, in bytes.
MaxSize == 4
\* Bytes of a multipart body that precede the file payload.
HdrLen == 1
\* Largest page number a client asks for.
MaxPage == 3
\* Largest per_page argument get_images is evaluated with.
MaxPerPage == 3
\* Rows of the images table at the start of a listing-only run.
MaxRows == 21
\* Characters in the part of a request path after /static/ or /images/.
MaxPathLen == 4
\* Bytes in the payload of an uploaded file part.
MaxPayloadLen == 3

(***************************************************************************)
(* Program constants.                                                      *)
(***************************************************************************)
\* app.py:23, read from the environment; scaled down from 5 MiB.
MAX_FILE_SIZE == 2
\* app.py:26
ITEMS_PER_PAGE == 10
\* app.py:70
max_retries == 10
\* app.py:239, the per_page argument of the list-data query; scaled down
\* from 1000 to two pages of ITEMS_PER_PAGE.
LIST_DATA_LIMIT == 20
\* app.py:540, largest accepted image width and height.
MAX_DIMENSION == 10000

\* app.py:24
ALLOWED_EXTENSIONS == {".jpg", ".jpeg", ".png", ".gif"}
\* app.py:535
ALLOWED_FORMATS == {"JPEG", "PNG", "GIF"}

VARIABLES
    dbUp,       \* the PostgreSQL server accepts connections and runs queries
    rows,       \* the images table
    nextId,     \* the table's serial; also the tick of the database clock
    files,      \* the upload directory: records [name, size]
    nextUid,    \* stands for uuid4: the next never used identifier
    conn,       \* db.connection: "none" (None), "live", or "dead" (broken)
    pc,         \* position of the running handler
    req,        \* the request being handled, or the last one handled
    loc,        \* the handler's local variables
    resp,       \* the response written for req
    dbpc,       \* position inside Database.execute_query / connect
    qry,        \* the statement execute_query was called with
    ret,        \* what execute_query returned
    attempt,    \* loop variable of Database.connect
    downSeen,   \* history: the database was unreachable at some moment of req
    removeFailed,\* history: some os.remove has raised
    orphaned,   \* history: ids whose delete removed the file, then failed
    deleted     \* history: [id, filename] of deletes answered 200

vars == <<dbUp, rows, nextId, files, nextUid, conn, pc, req, loc, resp, dbpc,
          qry, ret, attempt, downSeen, removeFailed, orphaned, deleted>>

store == <<rows, nextId>>
disk  == <<files, nextUid>>
hist  == <<removeFailed, orphaned, deleted>>
call  == <<dbpc, qry, ret, attempt>>

Min(a, b) == IF a < b THEN a ELSE b
Max(a, b) == IF a > b THEN a ELSE b

NoReq   == [kind |-> "none"]
NoLoc   == [kind |-> "none"]
NoResp  == [status |-> 0]
NoQuery == [op |-> "none"]
\* execute_query's failure sentinel None.  The field why is history only, no
\* handler reads it: "unreachable" (no connection, or OperationalError),
\* "rejected" (the server refused the statement), "none" (nothing returned yet).
Failure(why) == [ok |-> FALSE, rows |-> <<>>, why |-> why]
None    == Failure("none")
\* execute_query does not return: an exception leaves it for the caller.
Raised  == [ok |-> FALSE, rows |-> <<>>, why |-> "raised"]
NoName  == <<0, "">>

(***************************************************************************)
(* Client inputs.                                                          *)
(***************************************************************************)
\* Content-Type headers: multipart with a boundary, multipart without one,
\* and something else.
ContentTypes == {"multipart/form-data; boundary=x", "multipart/form-data",
                 "application/json"}
\* Content-Length headers: absent, not a number, or a number.
ContentLengths ==
    {[kind |-> "missing", n |-> 0], [kind |-> "text", n |-> 0]}
    \cup {[kind |-> "num", n |-> k] : k \in 0..(HdrLen + MaxSize)}
\* Declared file names of the file part; "" stands for a part without a
\* filename="..." attribute.
ClientNames == {"b.PNG", "c.exe", ""}
\* What Pillow makes of the payload: its format, or a failure to decode it,
\* and whether it is wider or higher than MAX_DIMENSION.
Images == {[format |-> "PNG", width |-> 1], [format |-> "BMP", width |-> 1],
           [format |-> "PNG", width |-> MAX_DIMENSION + 1],
           [format |-> "undecodable", width |-> 0]}
\* The last path segment of DELETE /delete/<id>.
IdTexts == {"1", "2", "3", "abc"}

\* os.path.splitext(filename)[1].lower()
splitext_lower == [f \in ClientNames |->
    CASE f = "b.PNG" -> ".png"
      [] f = "c.exe" -> ".exe"
      [] OTHER       -> ""]

\* image.format.lower()
format_lower == [f \in ALLOWED_FORMATS |->
    CASE f = "JPEG" -> "jpeg" [] f = "PNG" -> "png" [] OTHER -> "gif"]

\* PostgreSQL's cast of a text parameter to the integer column id; a text
\* outside the domain makes the statement fail (invalid input syntax).
IdOf == [t \in {"1", "2", "3"} |->
    CASE t = "1" -> 1 [] t = "2" -> 2 [] OTHER -> 3]

FileNamesOnDisk == {f.name : f \in files}
RowIds == {r.id : r \in rows}

(***************************************************************************)
(* Initial state: the module has been imported up to `db = Database()`,    *)
(* whose __init__ is about to run connect(); the table and the upload      *)
(* directory are empty.                                                    *)
(***************************************************************************)
InitCommon ==
    /\ dbUp \in BOOLEAN
    /\ conn = "none"
    /\ pc = "Starting"
    /\ req = NoReq
    /\ loc = NoLoc
    /\ resp = NoResp
    /\ dbpc = "connect"
    /\ qry = NoQuery
    /\ ret = None
    /\ attempt = 0
    /\ downSeen = ~dbUp
    /\ removeFailed = FALSE
    /\ orphaned = {}
    /\ deleted = {}

Init ==
    /\ InitCommon
    /\ rows = {}
    /\ nextId = 1
    /\ files = {}
    /\ nextUid = 1

(***************************************************************************)
(* The environment: the database server.                                   *)
(***************************************************************************)
\* The server stops or the network fails: an established connection breaks.
DbDown ==
    /\ dbUp
    /\ dbUp' = FALSE
    /\ conn' = IF conn = "live" THEN "dead" ELSE conn
    /\ downSeen' = TRUE
    /\ UNCHANGED <<store, disk, pc, req, loc, resp, call, hist>>

DbUp ==
    /\ ~dbUp
    /\ dbUp' = TRUE
    /\ UNCHANGED <<store, disk, conn, pc, req, loc, resp, call, downSeen, hist>>

(***************************************************************************)
(* Database: connect, is_connected, ensure_connection, execute_query.      *)
(***************************************************************************)
\* is_connected(): SELECT 1 on the cached connection.
IsConnected == conn = "live"
\* is_connected()'s effect on the handle: an exception clears it.
ConnAfterProbe == IF conn = "dead" THEN "none" ELSE conn

\* MayRetry with the loop running one iteration too many.
MayRetryOnceMore == attempt < max_retries

\* line 86: `if attempt < self.max_retries - 1`, with attempt the loop
\* variable of `for attempt in range(self.max_retries)`.
MayRetry == attempt < max_retries - 1

\* One iteration of connect()'s loop.  On success connect returns; a failed
\* attempt sleeps and retries, the last one clears the handle and returns.
ConnectReturnsTo == IF pc = "Starting" THEN "none" ELSE "recheck"
ConnectAttempt ==
    /\ dbpc = "connect"
    /\ IF dbUp
       THEN /\ conn' = "live"
            /\ dbpc' = ConnectReturnsTo
            /\ attempt' = 0
       ELSE IF MayRetry
            THEN /\ dbpc' = "sleep"
                 /\ UNCHANGED <<conn, attempt>>
            ELSE /\ conn' = "none"
                 /\ dbpc' = ConnectReturnsTo
                 /\ attempt' = 0
    /\ UNCHANGED <<dbUp, store, disk, pc, req, loc, resp, qry, ret, downSeen, hist>>

\* line 87: time.sleep(self.retry_delay), then the next iteration.
RetryDelay ==
    /\ dbpc = "sleep"
    /\ dbpc' = "connect"
    /\ attempt' = attempt + 1
    /\ UNCHANGED <<dbUp, store, disk, conn, pc, req, loc, resp, qry, ret, downSeen, hist>>

\* run_server(): the probe before serve_forever.
RunServer ==
    /\ pc = "Starting"
    /\ dbpc = "none"
    /\ conn' = ConnAfterProbe
    /\ pc' = "Idle"
    /\ UNCHANGED <<dbUp, store, disk, req, loc, resp, call, downSeen, hist>>

\* ensure_connection(), line 105: connect() is called when the probe fails.
EnsureConnection ==
    /\ dbpc = "ensure"
    /\ conn' = ConnAfterProbe
    /\ IF IsConnected
       THEN dbpc' = "recheck"
       ELSE dbpc' = "connect"
    /\ attempt' = 0
    /\ UNCHANGED <<dbUp, store, disk, pc, req, loc, resp, qry, ret, downSeen, hist>>

\* ensure_connection(), line 107, and execute_query's line 111: the second
\* probe decides whether the statement is tried at all.
EnsureRecheck ==
    /\ dbpc = "recheck"
    /\ conn' = ConnAfterProbe
    /\ IF IsConnected
       THEN /\ dbpc' = "exec"
            /\ UNCHANGED ret
       ELSE /\ dbpc' = "ret"
            /\ ret' = Failure("unreachable")
    /\ UNCHANGED <<dbUp, store, disk, pc, req, loc, resp, qry, attempt, downSeen, hist>>

(***************************************************************************)
(* The statements of the Database methods, run by PostgreSQL.              *)
(***************************************************************************)
\* ORDER BY upload_time DESC
RECURSIVE SortDesc(_)
SortDesc(S) ==
    IF S = {} THEN <<>>
    ELSE LET newest == CHOOSE r \in S : \A o \in S : o.upload_time <= r.upload_time
         IN  <<newest>> \o SortDesc(S \ {newest})

\* LIMIT lim OFFSET off of a result
LimitOffset(sq, lim, off) == SubSeq(sq, off + 1, Min(Len(sq), off + lim))

\* GetImagesQuery with a 0-based page number.
GetImagesQueryZeroBased(page, per_page) ==
    [op |-> "select_page", limit |-> per_page, offset |-> page * per_page]

\* get_images(page, per_page): the statement it builds (lines 139-141)
GetImagesQuery(page, per_page) ==
    [op |-> "select_page", limit |-> per_page, offset |-> (page - 1) * per_page]

\* SELECT * FROM images ORDER BY upload_time DESC LIMIT %s OFFSET %s
SelectPage(q) == LimitOffset(SortDesc(rows), q.limit, q.offset)

\* SelectById without its WHERE clause.
SelectAnyRow(t) == IF rows = {} THEN <<>> ELSE <<CHOOSE r \in rows : TRUE>>

\* SELECT * FROM images WHERE id = %s LIMIT 1
SelectById(t) ==
    LET hit == {r \in rows : r.id = IdOf[t]}
    IN  IF hit = {} THEN <<>> ELSE <<CHOOSE r \in hit : TRUE>>

\* INSERT INTO images (filename, original_name, size, file_type); id and
\* upload_time are the column defaults.
InsertRow(q) ==
    [id |-> nextId, filename |-> q.filename, original_name |-> q.original_name,
     size |-> q.size, file_type |-> q.file_type, upload_time |-> nextId]

\* A statement whose text parameter is no integer fails in the server.
StatementFails(q) == q.op \in {"select_id", "delete_id"} /\ q.id \notin DOMAIN IdOf

\* What cursor.execute / fetchall / commit give for a statement that runs.
QueryResult(q) ==
    [ok   |-> TRUE,
     why  |-> "",
     rows |-> CASE q.op = "select_page" -> SelectPage(q)
                [] q.op = "count"       -> <<[count |-> Cardinality(rows)]>>
                [] q.op = "select_id"   -> SelectById(q.id)
                [] OTHER                -> <<>>]

\* RowsAfter with a DELETE whose WHERE clause matches no row.
RowsAfterDeleteMatchesNothing(q) ==
    CASE q.op = "insert" -> rows \cup {InsertRow(q)}
      [] OTHER           -> rows

RowsAfter(q) ==
    CASE q.op = "insert"    -> rows \cup {InsertRow(q)}
      [] q.op = "delete_id" -> {r \in rows : r.id # IdOf[q.id]}
      [] OTHER              -> rows

\* execute_query, lines 115-124: the statement itself.  A broken connection
\* raises OperationalError (the handle is cleared, None is returned); a
\* statement the server rejects raises another error, handled by the except
\* of line 125.
ExecuteQuery ==
    /\ dbpc = "exec"
    /\ IF conn # "live"
       THEN /\ conn' = "none"
            /\ ret' = Failure("unreachable")
            /\ dbpc' = "ret"
            /\ UNCHANGED store
       ELSE IF StatementFails(qry)
       THEN /\ dbpc' = "rollback"
            /\ UNCHANGED <<conn, store, ret>>
       ELSE /\ ret' = QueryResult(qry)
            /\ rows' = RowsAfter(qry)
            /\ nextId' = IF qry.op = "insert" THEN nextId + 1 ELSE nextId
            /\ dbpc' = "ret"
            /\ UNCHANGED conn
    /\ UNCHANGED <<dbUp, disk, pc, req, loc, resp, qry, attempt, downSeen, hist>>

\* self.connection.rollback() on a connection that broke after the statement:
\* the driver cannot send ROLLBACK and raises.
RollbackRaises == conn # "live"

\* execute_query, lines 125-130: the handle is an object (truthy) whether the
\* connection is alive or broken, so rollback() is called; None is returned
\* when it succeeds, and its exception, raised inside the except clause,
\* leaves execute_query when it fails.
Rollback ==
    /\ dbpc = "rollback"
    /\ dbpc' = "ret"
    /\ ret' = IF RollbackRaises THEN Raised ELSE Failure("rejected")
    /\ UNCHANGED <<dbUp, store, disk, conn, pc, req, loc, resp, qry, attempt, downSeen,
                   hist>>

(***************************************************************************)
(* The server loop: a request is accepted when no handler is running.      *)
(***************************************************************************)
Terminal == {"Idle", "Succeeded", "Aborted", "Done"}

\* ListenerReady of a server that starts a thread per request.
ListenerReadyWhileHandling == pc # "Starting"

\* HTTPServer is socketserver.TCPServer without a threading or forking mix-in:
\* serve_forever calls the handler and takes the next request only when the
\* handler has returned.
ListenerReady == pc \in Terminal

Accept(r, l, first) ==
    /\ ListenerReady
    /\ req' = r
    /\ loc' = l
    /\ pc' = first
    /\ resp' = NoResp
    /\ dbpc' = "none"
    /\ qry' = NoQuery
    /\ ret' = None
    /\ attempt' = 0
    /\ downSeen' = ~dbUp
    /\ UNCHANGED <<dbUp, store, disk, conn, hist>>

\* The handler answers and returns.
Respond(status, body, final) ==
    /\ resp' = [status |-> status, body |-> body]
    /\ pc' = final

\* The start of a call of execute_query.
CallQuery(q) ==
    /\ dbpc' = "ensure"
    /\ qry' = q
    /\ ret' = None
    /\ attempt' = 0

(***************************************************************************)
(* POST /upload: _handle_file_upload and _validate_and_save_file.          *)
(***************************************************************************)
UploadLoc == [kind |-> "upload", raw |-> 0, file_size |-> 0, ext |-> "",
              image |-> [format |-> "none", width |-> 0],
              unique_filename |-> NoName, written |-> FALSE,
              read_raised |-> FALSE, insert_failed |-> FALSE,
              remove_raised |-> FALSE]

\* A request's headers and body are chosen when the handler first reads them;
\* until then the fields hold these placeholders.
UnreadUpload == [kind |-> "upload", ctype |-> "unread",
                 clen |-> [kind |-> "unread", n |-> 0], fname |-> "unread",
                 fsize |-> 0]

AcceptUpload ==
    /\ nextUid <= MaxUploads
    /\ Accept(UnreadUpload, UploadLoc, "Received")

\* content_type_header.startswith('multipart/form-data')
IsMultipart(ct) == ct \in {"multipart/form-data; boundary=x", "multipart/form-data"}
\* content_type_header.split('boundary=')[1] exists
HasBoundary(ct) == ct = "multipart/form-data; boundary=x"

\* lines 458-462
CheckContentType ==
    /\ pc = "Received"
    /\ \E ct \in ContentTypes :
          /\ req' = [req EXCEPT !.ctype = ct]
          /\ IF IsMultipart(ct)
             THEN pc' = "ContentTypeChecked" /\ UNCHANGED resp
             ELSE Respond(400, "multipart/form-data expected", "Aborted")
    /\ UNCHANGED <<dbUp, store, disk, conn, loc, call, downSeen, hist>>

\* lines 464-469
ExtractBoundary ==
    /\ pc = "ContentTypeChecked"
    /\ IF HasBoundary(req.ctype)
       THEN pc' = "BoundaryExtracted" /\ UNCHANGED resp
       ELSE Respond(400, "boundary not found", "Aborted")
    /\ UNCHANGED <<dbUp, store, disk, conn, req, loc, call, downSeen, hist>>

\* int(self.headers.get('Content-Length', 0)): a missing header is the
\* default 0, a header that is no number raises ValueError.
ContentLengthRaises(cl) == cl.kind = "text"
ContentLength(cl) == IF cl.kind = "num" THEN cl.n ELSE 0

\* line 473
RequestTooLarge(n) == n > MAX_FILE_SIZE * 2

\* The bytes on the wire: the part's headers, then the payload.
BodyLength(r) == HdrLen + r.fsize
\* self.rfile.read(content_length)
BytesRead(r) == Min(ContentLength(r.clen), BodyLength(r))

\* lines 471-485: 411 when the header is no number, 413 when it exceeds twice
\* the ceiling, else the body is read; a read of at least one byte can raise
\* (500).
ReadBody ==
    /\ pc = "BoundaryExtracted"
    /\ \E cl \in ContentLengths, sz \in 0..MaxSize :
          /\ req' = [req EXCEPT !.clen = cl, !.fsize = sz]
          /\ \/ /\ ContentLengthRaises(cl)
                /\ Respond(411, "bad Content-Length", "Aborted")
                /\ UNCHANGED loc
             \/ /\ ~ContentLengthRaises(cl)
                /\ RequestTooLarge(ContentLength(cl))
                /\ Respond(413, "request too large", "Aborted")
                /\ UNCHANGED loc
             \/ /\ ~ContentLengthRaises(cl)
                /\ ~RequestTooLarge(ContentLength(cl))
                /\ \/ /\ loc' = [loc EXCEPT !.raw = BytesRead(req')]
                      /\ pc' = "BodyRead"
                      /\ UNCHANGED resp
                   \/ /\ ContentLength(cl) > 0
                      /\ Respond(500, "error reading the request", "Aborted")
                      /\ loc' = [loc EXCEPT !.read_raised = TRUE]
    /\ UNCHANGED <<dbUp, store, disk, conn, call, downSeen, hist>>

\* _parse_multipart_data: the file part is found when its headers were read
\* and carry filename="...".
PartFound(r, raw) == raw >= HdrLen /\ r.fname # ""
\* len(file_data) of the part found, for a payload without whitespace bytes at
\* its ends (ParseMultipartData below computes file_data byte by byte)
PayloadLength(raw) == raw - HdrLen

\* lines 487-491
ParseMultipart ==
    /\ pc = "BodyRead"
    /\ \E fn \in ClientNames :
          /\ req' = [req EXCEPT !.fname = fn]
          /\ IF PartFound(req', loc.raw) /\ PayloadLength(loc.raw) > 0
             THEN /\ loc' = [loc EXCEPT !.file_size = PayloadLength(loc.raw)]
                  /\ pc' = "Parsed"
                  /\ UNCHANGED resp
             ELSE /\ Respond(400, "no file in the request", "Aborted")
                  /\ UNCHANGED loc
    /\ UNCHANGED <<dbUp, store, disk, conn, call, downSeen, hist>>

\* ExtensionAllowed with the allow-list check left out.
ExtensionUnchecked(e) == TRUE
\* line 518
ExtensionAllowed(e) == e \in ALLOWED_EXTENSIONS
\* FileTooLarge with the request's ceiling of line 473 in place of the file's.
FileTooLargeForRequest(n) == n > MAX_FILE_SIZE * 2
\* line 523
FileTooLarge(n) == n > MAX_FILE_SIZE
\* lines 528-548: Pillow opens and verifies the payload
ImageAccepted(img) ==
    /\ img.format # "undecodable"
    /\ img.format \in ALLOWED_FORMATS
    /\ img.width <= MAX_DIMENSION

\* lines 515-548
ValidateFile ==
    /\ pc = "Parsed"
    /\ LET e == splitext_lower[req.fname] IN
       IF ~ExtensionAllowed(e)
       THEN Respond(400, "unsupported extension", "Aborted") /\ UNCHANGED loc
       ELSE IF FileTooLarge(loc.file_size)
       THEN Respond(400, "file too large", "Aborted") /\ UNCHANGED loc
       ELSE \E img \in Images :
               IF ImageAccepted(img)
               THEN /\ loc' = [loc EXCEPT !.ext = e, !.image = img]
                    /\ pc' = "Validated"
                    /\ UNCHANGED resp
               ELSE /\ Respond(400, "image validation failed", "Aborted")
                    /\ UNCHANGED loc
    /\ UNCHANGED <<dbUp, store, disk, conn, req, call, downSeen, hist>>

\* lines 550-551: f"{uuid.uuid4().hex}{file_extension}"
GenerateFilename ==
    /\ pc = "Validated"
    /\ loc' = [loc EXCEPT !.unique_filename = <<nextUid, loc.ext>>]
    /\ nextUid' = nextUid + 1
    /\ pc' = "FilenameGenerated"
    /\ UNCHANGED <<dbUp, store, files, conn, req, resp, call, downSeen, hist>>

\* open(target_path, 'wb') and write: the directory after it
FilesAfterWrite(name, n) == {f \in files : f.name # name} \cup {[name |-> name, size |-> n]}
\* FilesAfterRemove with an os.remove that is skipped.
FilesAfterRemoveSkipped(name) == files

\* os.remove(target_path)
FilesAfterRemove(name) == {f \in files : f.name # name}

\* save_image_metadata(unique_filename, filename, file_size, file_type)
SaveImageMetadataQuery ==
    [op |-> "insert", filename |-> loc.unique_filename, original_name |-> req.fname,
     size |-> loc.file_size, file_type |-> format_lower[loc.image.format]]

\* lines 553-558 and 573-575: the file is written whole and the metadata
\* insert begins, or open raises, or write raises on a partly written file.
WriteFile ==
    /\ pc = "FilenameGenerated"
    /\ \/ /\ files' = FilesAfterWrite(loc.unique_filename, loc.file_size)
          /\ loc' = [loc EXCEPT !.written = TRUE]
          /\ pc' = "FileWritten"
          /\ CallQuery(SaveImageMetadataQuery)
          /\ UNCHANGED resp
       \/ /\ UNCHANGED <<files, loc, call>>
          /\ Respond(500, "error saving the file", "Aborted")
       \/ /\ \E k \in 0..(loc.file_size - 1) :
                files' = FilesAfterWrite(loc.unique_filename, k)
          /\ Respond(500, "error saving the file", "Aborted")
          /\ UNCHANGED <<loc, call>>
    /\ UNCHANGED <<dbUp, store, nextUid, conn, req, downSeen, hist>>

\* FilesAfterCompensation without the removal of lines 569-570.
FilesAfterNoCompensation(name) == files

\* lines 569-570: the compensating removal, when it does not raise
FilesAfterCompensation(name) ==
    IF name \in FileNamesOnDisk THEN FilesAfterRemove(name) ELSE files

\* lines 558-575: the insert's result decides between the success response
\* and the compensating removal with a 500; an os.remove that raises is
\* caught by the outer except, which answers 500 as well.
FinishUpload ==
    /\ pc = "FileWritten"
    /\ dbpc = "ret"
    /\ dbpc' = "none"
    /\ \/ /\ ret.ok
          /\ Respond(200, [filename |-> loc.unique_filename,
                           original_name |-> req.fname], "Succeeded")
          /\ UNCHANGED <<files, loc, removeFailed>>
       \/ /\ ~ret.ok
          /\ files' = FilesAfterCompensation(loc.unique_filename)
          /\ loc' = [loc EXCEPT !.insert_failed = TRUE]
          /\ Respond(500, "error saving the metadata", "Aborted")
          /\ UNCHANGED removeFailed
       \/ /\ ~ret.ok
          /\ loc.unique_filename \in FileNamesOnDisk
          /\ loc' = [loc EXCEPT !.insert_failed = TRUE, !.remove_raised = TRUE]
          /\ removeFailed' = TRUE
          /\ Respond(500, "error saving the file", "Aborted")
          /\ UNCHANGED files
    /\ UNCHANGED <<dbUp, store, nextUid, conn, req, qry, ret, attempt, downSeen,
                   orphaned, deleted>>

(***************************************************************************)
(* require_db_connection: the decorator of the three store-backed handlers.*)
(***************************************************************************)
Guarded == {"delete", "list_data", "list_page"}

\* get_image(id=image_id): the statement it builds (lines 155-162)
GetImageQuery(t) == [op |-> "select_id", id |-> t]
\* delete_image(image_id), lines 167-168
DeleteImageQuery(t) == [op |-> "delete_id", id |-> t]

\* int(params.get('page', [1])[0]) and the clamp of lines 264-265
PageRaises(p) == p.kind = "text"
PageNumber(p) == IF p.kind = "num" THEN Max(1, p.n) ELSE 1

\* lines 56-60: one probe; 503 when it fails, else the handler's body runs up
\* to its first store call.
RequireDbConnection ==
    /\ pc = "Guard"
    /\ conn' = ConnAfterProbe
    /\ IF ~IsConnected
       THEN /\ Respond(503, "no connection to the database", "Done")
            /\ UNCHANGED <<loc, call>>
       ELSE CASE req.kind = "delete" ->
                   /\ pc' = "DelLookup"
                   /\ CallQuery(GetImageQuery(req.id))
                   /\ UNCHANGED <<loc, resp>>
              [] req.kind = "list_data" ->
                   /\ pc' = "DataQuery"
                   /\ CallQuery(GetImagesQuery(1, LIST_DATA_LIMIT))
                   /\ UNCHANGED <<loc, resp>>
              [] OTHER ->
                   IF PageRaises(req.page)
                   THEN /\ Respond(500, "500 Internal Server Error", "Done")
                        /\ UNCHANGED <<loc, call>>
                   ELSE /\ pc' = "PageQuery"
                        /\ loc' = [loc EXCEPT !.page = PageNumber(req.page)]
                        /\ CallQuery(GetImagesQuery(PageNumber(req.page), ITEMS_PER_PAGE))
                        /\ UNCHANGED resp
    /\ UNCHANGED <<dbUp, store, disk, req, downSeen, hist>>

(***************************************************************************)
(* DELETE /delete/<id>: _handle_file_delete.                               *)
(***************************************************************************)
DeleteLoc == [kind |-> "delete", lookup |-> "none", id |-> 0, filename |-> NoName,
              removed |-> FALSE]

\* The id names a row of the table.
HasRecord(t) == t \in DOMAIN IdOf /\ IdOf[t] \in RowIds

\* existed is history: whether the id had a record when the request arrived.
AcceptDelete ==
    \E t \in IdTexts :
        Accept([kind |-> "delete", id |-> t, existed |-> HasRecord(t)], DeleteLoc, "Guard")

\* get_image's `result[0] if result else None`
FirstOrNone(r) == IF r.ok /\ Len(r.rows) > 0 THEN <<r.rows[1]>> ELSE <<>>
\* History: how the lookup ended: "unreachable", "rejected", "raised", "empty",
\* "found".
LookupOutcome(r) ==
    IF ~r.ok THEN r.why ELSE IF Len(r.rows) = 0 THEN "empty" ELSE "found"

\* os.path.abspath(os.path.join(UPLOAD_DIR, filename)).startswith(upload_dir):
\* a stored filename is 32 hex digits and an extension, without separators.
InsideUploadDir(name) == name[2] \in ALLOWED_EXTENSIONS

\* lines 422-442: no row (or no result) is answered 404; else the file is
\* removed when it exists and delete_image is called.  An os.remove that
\* raises, or an exception that leaves get_image, is answered 500 by the
\* except of lines 452-454.
DeleteFile ==
    /\ pc = "DelLookup"
    /\ dbpc = "ret"
    /\ LET image_info == FirstOrNone(ret) IN
       IF ret = Raised
       THEN /\ Respond(500, "error deleting the file", "Done")
            /\ loc' = [loc EXCEPT !.lookup = "raised"]
            /\ dbpc' = "none"
            /\ UNCHANGED <<files, qry, ret, attempt, removeFailed>>
       ELSE IF image_info = <<>>
       THEN /\ Respond(404, "image not found in the database", "Done")
            /\ loc' = [loc EXCEPT !.lookup = LookupOutcome(ret)]
            /\ dbpc' = "none"
            /\ UNCHANGED <<files, qry, ret, attempt, removeFailed>>
       ELSE LET row == image_info[1] IN
            IF ~InsideUploadDir(row.filename)
            THEN /\ Respond(403, "forbidden path", "Done")
                 /\ loc' = [loc EXCEPT !.lookup = "found", !.id = row.id,
                                       !.filename = row.filename]
                 /\ dbpc' = "none"
                 /\ UNCHANGED <<files, qry, ret, attempt, removeFailed>>
            ELSE \/ /\ files' = FilesAfterRemove(row.filename)
                    /\ loc' = [loc EXCEPT !.lookup = "found", !.id = row.id,
                                          !.filename = row.filename,
                                          !.removed = row.filename \in FileNamesOnDisk]
                    /\ pc' = "DelRecord"
                    /\ CallQuery(DeleteImageQuery(req.id))
                    /\ UNCHANGED <<resp, removeFailed>>
                 \/ /\ row.filename \in FileNamesOnDisk
                    /\ removeFailed' = TRUE
                    /\ loc' = [loc EXCEPT !.lookup = "found", !.id = row.id,
                                          !.filename = row.filename]
                    /\ Respond(500, "error deleting the file", "Done")
                    /\ dbpc' = "none"
                    /\ UNCHANGED <<files, qry, ret, attempt>>
    /\ UNCHANGED <<dbUp, store, nextUid, conn, req, downSeen, orphaned, deleted>>

\* lines 444-451: 200 when delete_image returned True, else 500.
FinishDelete ==
    /\ pc = "DelRecord"
    /\ dbpc = "ret"
    /\ dbpc' = "none"
    /\ IF ret.ok
       THEN /\ Respond(200, "file deleted", "Done")
            /\ deleted' = deleted \cup {[id |-> loc.id, filename |-> loc.filename]}
            /\ UNCHANGED orphaned
       ELSE /\ Respond(500, "error deleting from the database", "Done")
            /\ orphaned' = orphaned \cup {loc.id}
            /\ UNCHANGED deleted
    /\ UNCHANGED <<dbUp, store, disk, conn, req, loc, qry, ret, attempt, downSeen,
                   removeFailed>>

(***************************************************************************)
(* GET /images-list-data and GET /images-list.                             *)
(***************************************************************************)
\* get_images' `result if result else []`
RowsOrEmpty(r) == IF r.ok THEN r.rows ELSE <<>>
\* get_total_images_count's `result[0]['count'] if result else 0`
CountOrZero(r) == IF r.ok /\ Len(r.rows) > 0 THEN r.rows[1].count ELSE 0
\* line 269
TotalPages(total_count) ==
    Max(1, (total_count + ITEMS_PER_PAGE - 1) \div ITEMS_PER_PAGE)

AcceptListData ==
    Accept([kind |-> "list_data"], [kind |-> "list_data", ran |-> FALSE], "Guard")

\* lines 239-253
ServeImagesListData ==
    /\ pc = "DataQuery"
    /\ dbpc = "ret"
    /\ dbpc' = "none"
    /\ loc' = [loc EXCEPT !.ran = ret.ok]
    /\ Respond(200, [images |-> RowsOrEmpty(ret)], "Done")
    /\ UNCHANGED <<dbUp, store, disk, conn, req, qry, ret, attempt, downSeen, hist>>

PageParams ==
    {[kind |-> "missing", n |-> 0], [kind |-> "text", n |-> 0]}
    \cup {[kind |-> "num", n |-> k] : k \in 0..MaxPage}

AcceptListPage ==
    \E p \in PageParams :
        Accept([kind |-> "list_page", page |-> p],
               [kind |-> "list_page", page |-> 0, images |-> <<>>,
                ran_list |-> FALSE, ran_count |-> FALSE], "Guard")

\* lines 267-268: get_images has returned, get_total_images_count is called
CountImages ==
    /\ pc = "PageQuery"
    /\ dbpc = "ret"
    /\ loc' = [loc EXCEPT !.images = RowsOrEmpty(ret), !.ran_list = ret.ok]
    /\ pc' = "PageCount"
    /\ CallQuery([op |-> "count"])
    /\ UNCHANGED <<dbUp, store, disk, conn, req, resp, downSeen, hist>>

\* lines 268-274
ServeImagesList ==
    /\ pc = "PageCount"
    /\ dbpc = "ret"
    /\ dbpc' = "none"
    /\ loc' = [loc EXCEPT !.ran_count = ret.ok]
    /\ Respond(200, [images |-> loc.images, current_page |-> loc.page,
                     total_count |-> CountOrZero(ret),
                     total_pages |-> TotalPages(CountOrZero(ret))], "Done")
    /\ UNCHANGED <<dbUp, store, disk, conn, req, qry, ret, attempt, downSeen, hist>>

(***************************************************************************)
(* GET /images/<name>: _serve_uploaded_file and _serve_file.               *)
(***************************************************************************)
\* The names a client can ask for: those uuid4 can have produced.
RequestNames == {<<u, ".png">> : u \in 1..MaxUploads}

\* lines 374-382: the status and the bytes served for a name
ServeFileStatus(name) == IF name \in FileNamesOnDisk THEN 200 ELSE 404
ServeFileBody(name) ==
    IF name \in FileNamesOnDisk
    THEN (CHOOSE f \in files : f.name = name).size
    ELSE 0

\* The handler is one straight-line step: it touches neither the store nor
\* the connection.
ServeUploadedFile ==
    /\ ListenerReady
    /\ \E name \in RequestNames :
          /\ req' = [kind |-> "get_image", name |-> name]
          /\ resp' = [status |-> ServeFileStatus(name), body |-> ServeFileBody(name)]
    /\ loc' = NoLoc
    /\ pc' = "Done"
    /\ dbpc' = "none"
    /\ qry' = NoQuery
    /\ ret' = None
    /\ attempt' = 0
    /\ downSeen' = ~dbUp
    /\ UNCHANGED <<dbUp, store, disk, conn, hist>>

(***************************************************************************)
(* The server: every request kind, on an initially empty store.            *)
(***************************************************************************)
Database ==
    \/ ConnectAttempt
    \/ RetryDelay
    \/ EnsureConnection
    \/ EnsureRecheck
    \/ ExecuteQuery

Upload ==
    \/ AcceptUpload
    \/ CheckContentType
    \/ ExtractBoundary
    \/ ReadBody
    \/ ParseMultipart
    \/ ValidateFile
    \/ GenerateFilename
    \/ WriteFile
    \/ FinishUpload

Delete ==
    \/ AcceptDelete
    \/ DeleteFile
    \/ FinishDelete

Listing ==
    \/ AcceptListData
    \/ ServeImagesListData
    \/ AcceptListPage
    \/ CountImages
    \/ ServeImagesList

Next ==
    \/ DbDown
    \/ DbUp
    \/ RunServer
    \/ Database
    \/ Rollback
    \/ RequireDbConnection
    \/ Upload
    \/ Delete
    \/ Listing
    \/ ServeUploadedFile

Spec == Init /\ [][Next]_vars

(***************************************************************************)
(* The listing handlers alone, on a table that already holds N rows (the   *)
(* table outlives the server process), each with its file.                 *)
(***************************************************************************)
StoredRow(i) ==
    [id |-> i, filename |-> <<i, ".png">>, original_name |-> "b.PNG", size |-> 1,
     file_type |-> "png", upload_time |-> i]

InitPage ==
    /\ InitCommon
    /\ \E n \in 0..MaxRows :
          /\ rows = {StoredRow(i) : i \in 1..n}
          /\ files = {[name |-> <<i, ".png">>, size |-> 1] : i \in 1..n}
          /\ nextId = n + 1
          /\ nextUid = n + 1

NextPage ==
    \/ DbDown
    \/ DbUp
    \/ RunServer
    \/ Database
    \/ RequireDbConnection
    \/ Listing

SpecPage == InitPage /\ [][NextPage]_vars

(***************************************************************************)
(* GET /static/<path> and GET /images/<path> on path strings.  A string is *)
(* a sequence of characters; the functions of os.path are computed as      *)
(* posixpath computes them.  The process runs in /a; the static root is    *)
(* /a/s and the upload root /a/i.                                          *)
(***************************************************************************)
PathChars == {"/", ".", "f", "g"}
Cwd == <<"/", "a">>
STATIC_FILES_DIR == <<"s">>
UPLOAD_DIR == <<"i">>
\* The files of the machine and their contents: f in each root, and f and g
\* next to the program, outside both roots.
DiskFiles ==
    {[path |-> <<"/", "a", "/", "s", "/", "f">>, content |-> "static f"],
     [path |-> <<"/", "a", "/", "i", "/", "f">>, content |-> "image f"],
     [path |-> <<"/", "a", "/", "f">>,           content |-> "outside f"],
     [path |-> <<"/", "a", "/", "g">>,           content |-> "outside g"]}

\* All strings of at most n characters of the alphabet A.
RECURSIVE StringsUpTo(_, _)
StringsUpTo(A, n) ==
    IF n = 0 THEN {<<>>}
    ELSE LET shorter == StringsUpTo(A, n - 1)
         IN  shorter \cup {Append(t, c) : t \in {u \in shorter : Len(u) = n - 1},
                                          c \in A}
RequestPaths == StringsUpTo(PathChars, MaxPathLen)

SlashesOf(p) == {i \in 1..Len(p) : p[i] = "/"}
\* Basename that keeps the directory components.
BasenameKeepsDirectories(p) == p

\* os.path.basename(p): p[p.rfind('/') + 1:]
Basename(p) ==
    IF SlashesOf(p) = {} THEN p
    ELSE SubSeq(p, (CHOOSE i \in SlashesOf(p) : \A j \in SlashesOf(p) : j <= i) + 1, Len(p))

\* os.path.join(a, b)
Join(a, b) ==
    IF b # <<>> /\ b[1] = "/" THEN b
    ELSE IF a = <<>> \/ a[Len(a)] = "/" THEN a \o b
    ELSE a \o <<"/">> \o b

\* p.split('/')
RECURSIVE Split(_)
Split(p) ==
    IF SlashesOf(p) = {} THEN <<p>>
    ELSE LET i == CHOOSE k \in SlashesOf(p) : \A j \in SlashesOf(p) : k <= j
         IN  <<SubSeq(p, 1, i - 1)>> \o Split(SubSeq(p, i + 1, Len(p)))

\* normpath's loop over the components of an absolute path: empty and "."
\* components are dropped, ".." drops the component before it (none at the
\* root).
RECURSIVE Collapse(_, _)
Collapse(comps, kept) ==
    IF comps = <<>> THEN kept
    ELSE LET c == Head(comps) IN
         IF c = <<>> \/ c = <<".">> THEN Collapse(Tail(comps), kept)
         ELSE IF c = <<".", ".">>
         THEN Collapse(Tail(comps),
                       IF kept = <<>> THEN <<>> ELSE SubSeq(kept, 1, Len(kept) - 1))
         ELSE Collapse(Tail(comps), Append(kept, c))

\* '/'.join(comps)
RECURSIVE SlashJoin(_)
SlashJoin(comps) ==
    IF comps = <<>> THEN <<>>
    ELSE IF Len(comps) = 1 THEN Head(comps)
    ELSE Head(comps) \o <<"/">> \o SlashJoin(Tail(comps))

\* posixpath.normpath of an absolute path: exactly two leading slashes are
\* kept, any other number becomes one.
InitialSlashes(p) ==
    IF Len(p) >= 2 /\ p[2] = "/" /\ ~(Len(p) >= 3 /\ p[3] = "/")
    THEN <<"/", "/">> ELSE <<"/">>
Normpath(p) == InitialSlashes(p) \o SlashJoin(Collapse(Split(p), <<>>))

\* os.path.abspath(p): normpath(join(os.getcwd(), p))
Abspath(p) == Normpath(Join(Cwd, p))

\* s.startswith(prefix), on strings
StartsWith(t, prefix) ==
    Len(t) >= Len(prefix) /\ SubSeq(t, 1, Len(prefix)) = prefix

\* os.path.exists(p) and os.path.isfile(p)
IsFile(p) == \E f \in DiskFiles : f.path = p
ContentOf(p) == (CHOOSE f \in DiskFiles : f.path = p).content

\* _serve_file, lines 363-366
FullPath(file_path, base_dir) == Abspath(Join(base_dir, Basename(file_path)))

\* _serve_file(file_path, base_dir): 403 outside the base directory, the
\* file's bytes when it is a file, else 404; 500 when reading it raises.
ServeFile(file_path, base_dir) ==
    LET full_path == FullPath(file_path, base_dir) IN
    IF ~StartsWith(full_path, Abspath(base_dir))
    THEN resp' = [status |-> 403, body |-> "403 Forbidden"]
    ELSE IF IsFile(full_path)
    THEN \/ resp' = [status |-> 200, body |-> ContentOf(full_path)]
         \/ resp' = [status |-> 500, body |-> "500 Internal Server Error"]
    ELSE resp' = [status |-> 404, body |-> "404 Not Found"]

\* A GET request is taken by the idle listener and handled in one step by a
\* handler that touches neither the store nor the connection.
AcceptAndServe(r) ==
    /\ pc = "Idle"
    /\ req' = r
    /\ loc' = NoLoc
    /\ pc' = "Done"
    /\ dbpc' = "none"
    /\ qry' = NoQuery
    /\ ret' = None
    /\ attempt' = 0
    /\ downSeen' = ~dbUp
    /\ UNCHANGED <<dbUp, store, disk, conn, hist>>

\* do_GET, lines 225-227, and _serve_static_file: file_path = path[8:]
ServeStaticPath ==
    \E rest \in RequestPaths :
        /\ AcceptAndServe([kind |-> "get_static", path |-> rest])
        /\ ServeFile(rest, STATIC_FILES_DIR)

\* do_GET, lines 228-229, and _serve_uploaded_file: the base name of the
\* whole request path /images/<rest> is handed to _serve_file.
ServeUploadedPath ==
    \E rest \in RequestPaths :
        /\ AcceptAndServe([kind |-> "get_upload", path |-> rest])
        /\ ServeFile(Basename(<<"/", "i", "m", "a", "g", "e", "s", "/">> \o rest),
                     UPLOAD_DIR)

\* serve_forever: the handler has returned, the response is flushed and the
\* listener waits for the next request.
FinishRequest ==
    /\ pc = "Done"
    /\ pc' = "Idle"
    /\ req' = NoReq
    /\ resp' = NoResp
    /\ UNCHANGED <<dbUp, store, disk, conn, loc, call, downSeen, hist>>

NextServe ==
    \/ ConnectAttempt
    \/ RetryDelay
    \/ RunServer
    \/ ServeStaticPath
    \/ ServeUploadedPath
    \/ FinishRequest

SpecServe == Init /\ [][NextServe]_vars

(***************************************************************************)
(* POST /upload and GET /images/<filename> on the bytes of the file part.  *)
(* A body is a sequence of bytes; the boundary delimiter and the           *)
(* Content-Disposition line are one symbol each.  D is a byte that is no   *)
(* whitespace.  The handler runs in one step; the database does not change *)
(* while it runs, the disk does not fail.                                  *)
(***************************************************************************)
\* The bytes bytes.strip() removes (of b' \t\n\r\x0b\x0c').
Whitespace == {"sp", "cr", "lf"}
PayloadBytes == Whitespace \cup {"D"}
Payloads == StringsUpTo(PayloadBytes, MaxPayloadLen)
\* b'--' + boundary
Delimiter == "--x"
\* Content-Disposition: form-data; name="file"; filename="b.PNG"
DispositionLine == "Content-Disposition: form-data; name=file; filename=b.PNG"
CRLF == <<"cr", "lf">>

\* The body a client sends for one file part (RFC 7578): the payload is
\* followed by CRLF and the closing delimiter.
MultipartBody(payload) ==
    <<Delimiter>> \o CRLF \o <<DispositionLine>> \o CRLF \o CRLF
        \o payload \o CRLF \o <<Delimiter, "-", "-">> \o CRLF

\* raw_body.split(b'--' + boundary)
RECURSIVE SplitOn(_, _)
SplitOn(b, d) ==
    LET at == {i \in 1..Len(b) : b[i] = d} IN
    IF at = {} THEN <<b>>
    ELSE LET i == CHOOSE k \in at : \A j \in at : k <= j
         IN  <<SubSeq(b, 1, i - 1)>> \o SplitOn(SubSeq(b, i + 1, Len(b)), d)

\* part.find(b'\r\n\r\n'), as a 0-based index; -1 when there is none
Find4(part) ==
    LET at == {i \in 1..(Len(part) - 3) : SubSeq(part, i, i + 3) = CRLF \o CRLF} IN
    IF at = {} THEN -1 ELSE (CHOOSE k \in at : \A j \in at : k <= j) - 1

\* bytes.strip(): leading and trailing whitespace bytes are removed
Strip(b) ==
    LET keep == {i \in 1..Len(b) : b[i] \notin Whitespace} IN
    IF keep = {} THEN <<>>
    ELSE SubSeq(b, CHOOSE k \in keep : \A j \in keep : k <= j,
                   CHOOSE k \in keep : \A j \in keep : j <= k)

\* line 499: the part carries the disposition header and filename=
IsFilePart(part) == \E i \in 1..Len(part) : part[i] = DispositionLine

\* lines 501-507 for a file part: part[headers_end + 4:].strip()
FileDataOf(part) ==
    LET headers_end == Find4(part)
        from == IF headers_end = -1 THEN 4 ELSE headers_end + 5
    IN  Strip(SubSeq(part, from, Len(part)))

\* _parse_multipart_data: the first file part's data and name, or (None, None)
RECURSIVE FirstFilePart(_)
FirstFilePart(parts) ==
    IF parts = <<>> THEN [found |-> FALSE, file_data |-> <<>>, filename |-> ""]
    ELSE IF IsFilePart(Head(parts))
    THEN [found |-> TRUE, file_data |-> FileDataOf(Head(parts)), filename |-> "b.PNG"]
    ELSE FirstFilePart(Tail(parts))
ParseMultipartData(raw_body) == FirstFilePart(SplitOn(raw_body, Delimiter))

\* Image.open / verify: an image is recognised by the signature at the first
\* byte; bytes after the image's end are ignored.  D at the first byte is
\* the signature of a PNG.
Decodable(b) == b # <<>> /\ b[1] = "D"

\* open(target_path, 'wb').write(file_data): the directory after it
FilesAfterWriteBytes(name, data) ==
    {f \in files : f.name # name}
        \cup {[name |-> name, size |-> Len(data), content |-> data]}

\* _handle_file_upload and _validate_and_save_file on an empty upload
\* directory, for a well-formed request whose Content-Length is the body's:
\* parse, extension, size, Pillow, uuid4 name, write, save_image_metadata
\* (ensure_connection reconnects when the database is up), then 200, or the
\* compensating removal and 500.
UploadFilePart ==
    /\ pc = "Idle"
    /\ files = {}
    /\ \E payload \in Payloads :
          LET parsed    == ParseMultipartData(MultipartBody(payload))
              file_data == parsed.file_data
              e         == splitext_lower[parsed.filename]
              name      == <<nextUid, e>>
              q         == [op |-> "insert", filename |-> name,
                            original_name |-> parsed.filename,
                            size |-> Len(file_data), file_type |-> "png"]
              reachable == IsConnected \/ dbUp
          IN  /\ req' = [kind |-> "upload_part", payload |-> payload]
              /\ loc' = [kind |-> "upload_part", file_data |-> file_data]
              /\ IF ~parsed.found
                 THEN /\ Respond(400, "no file in the request", "Aborted")
                      /\ UNCHANGED <<store, disk, conn>>
                 ELSE IF ~ExtensionAllowed(e) \/ FileTooLarge(Len(file_data))
                         \/ ~Decodable(file_data)
                 THEN /\ Respond(400, "validation failed", "Aborted")
                      /\ UNCHANGED <<store, disk, conn>>
                 ELSE /\ nextUid' = nextUid + 1
                      /\ conn' = IF reachable THEN "live" ELSE "none"
                      /\ IF reachable
                         THEN /\ files' = FilesAfterWriteBytes(name, file_data)
                              /\ rows' = RowsAfter(q)
                              /\ nextId' = nextId + 1
                              /\ Respond(200, [filename |-> name,
                                               original_name |-> parsed.filename],
                                         "Succeeded")
                         ELSE /\ UNCHANGED <<files, store>>
                              /\ Respond(500, "error saving the metadata", "Aborted")
    /\ UNCHANGED <<dbUp, call, downSeen, hist>>

\* GET /images/<filename> for the filename the upload just returned:
\* _serve_file writes f.read().  uploaded is history: the bytes of the part.
ServeReturnedFile ==
    /\ pc = "Succeeded"
    /\ req.kind = "upload_part"
    /\ LET name == resp.body.filename
           on_disk == {f \in files : f.name = name}
       IN  /\ req' = [kind |-> "get_returned", name |-> name, uploaded |-> req.payload]
           /\ resp' = IF on_disk = {}
                      THEN [status |-> 404, body |-> <<>>]
                      ELSE [status |-> 200, body |-> (CHOOSE f \in on_disk : TRUE).content]
    /\ loc' = NoLoc
    /\ pc' = "Done"
    /\ UNCHANGED <<dbUp, store, disk, conn, call, downSeen, hist>>

NextRoundTrip ==
    \/ ConnectAttempt
    \/ RetryDelay
    \/ RunServer
    \/ UploadFilePart
    \/ ServeReturnedFile

SpecRoundTrip == Init /\ [][NextRoundTrip]_vars

(***************************************************************************)
(* The connection handling alone: connect() at start-up and from           *)
(* ensure_connection, driven by list-data requests.  Every attempt ends    *)
(* (connect_timeout=10 bounds psycopg2.connect) and every time.sleep       *)
(* returns: both steps are weakly fair.  The database and the clients are  *)
(* free.                                                                   *)
(***************************************************************************)
NextConnect ==
    \/ DbDown
    \/ DbUp
    \/ RunServer
    \/ ConnectAttempt
    \/ RetryDelay
    \/ EnsureConnection
    \/ EnsureRecheck
    \/ ExecuteQuery
    \/ RequireDbConnection
    \/ AcceptListData
    \/ ServeImagesListData

SpecConnect ==
    /\ Init
    /\ [][NextConnect]_vars
    /\ WF_vars(ConnectAttempt)
    /\ WF_vars(RetryDelay)

(***************************************************************************)
(* Properties.                                                             *)
(***************************************************************************)
UploadDone == req.kind = "upload" /\ pc \in {"Aborted", "Succeeded"}
DeleteDone == req.kind = "delete" /\ pc = "Done"
DeleteInProgress == req.kind = "delete" /\ pc \notin Terminal
HasFile(r) == r.filename \in FileNamesOnDisk
\* Neither a file nor a record carries the name the upload generated.
NothingStored ==
    /\ loc.unique_filename \notin FileNamesOnDisk
    /\ \A r \in rows : r.filename # loc.unique_filename

\* C1 as claimed: whenever no delete request is in progress and no disk
\* removal has failed, every record of the images table has its file in the
\* upload directory.  Violated: a delete removes the file, then delete_image
\* fails and the request ends with the record still in the table.
C1_EveryRecordHasItsFile ==
    (~DeleteInProgress /\ ~removeFailed) => \A r \in rows : HasFile(r)

\* C1 amended: whenever no delete request is in progress, every record has
\* its file, except the records of ids whose delete request removed the file
\* and then failed to delete the record.
C1_EveryRecordHasItsFileUnlessDeleteFailed ==
    ~DeleteInProgress => \A r \in rows : HasFile(r) \/ r.id \in orphaned

\* An upload whose insert failed has ended while the table holds a record.
C1_Witness ==
    /\ UploadDone
    /\ loc.insert_failed
    /\ rows # {}
    /\ \A r \in rows : HasFile(r)

C3_DeleteRemovesFileAndRecord ==
    /\ \A d \in deleted :
          /\ d.filename \notin FileNamesOnDisk
          /\ d.id \notin RowIds
    /\ (pc = "Done" /\ req.kind = "get_image"
            /\ \E d \in deleted : d.filename = req.name)
          => resp.status = 404
    /\ (pc = "Done" /\ req.kind = "list_data" /\ resp.status = 200)
          => \A d \in deleted : \A i \in 1..Len(resp.body.images) :
                resp.body.images[i].id # d.id

\* After a delete answered 200 the list data is served with another record.
C3_Witness ==
    /\ deleted # {}
    /\ pc = "Done"
    /\ req.kind = "list_data"
    /\ resp.status = 200
    /\ Len(resp.body.images) > 0

\* C4: a delete request for an id that has no record, once past the
\* connection guard and with a lookup that returned to the handler, is
\* answered 404, and no step of it changes the images table or the upload
\* directory.
C4_DeleteOfMissingId ==
    /\ []((DeleteDone /\ ~req.existed /\ resp.status # 503 /\ loc.lookup # "raised")
            => resp.status = 404)
    /\ [][(DeleteInProgress /\ ~req.existed) => (rows' = rows /\ files' = files)]_vars

\* A delete of an id without a record is answered 404 on a non-empty store.
C4_Witness ==
    /\ DeleteDone
    /\ ~req.existed
    /\ resp.status = 404
    /\ rows # {}
    /\ files # {}

\* The body is read whole: the Content-Length is a number that covers the
\* body, and the read does not raise.
BodyReadWhole ==
    /\ req.clen.kind = "num"
    /\ req.clen.n >= HdrLen + req.fsize
    /\ ~loc.read_raised

C6_BadContentLengthIs411 ==
    (UploadDone /\ req.ctype = "multipart/form-data; boundary=x"
        /\ req.clen.kind \in {"missing", "text"})
        => resp.status = 411

UploadEdges ==
    {<<"Received", "ContentTypeChecked">>, <<"ContentTypeChecked", "BoundaryExtracted">>,
     <<"BoundaryExtracted", "BodyRead">>, <<"BodyRead", "Parsed">>,
     <<"Parsed", "Validated">>, <<"Validated", "FilenameGenerated">>,
     <<"FilenameGenerated", "FileWritten">>, <<"FileWritten", "Succeeded">>}

\* Every check and validation of the pipeline has passed for req.
EveryCheckPassed ==
    /\ req.ctype = "multipart/form-data; boundary=x"
    /\ req.clen.kind \in {"num", "missing"}
    /\ req.clen.n <= 2 * MAX_FILE_SIZE
    /\ req.fname \in ClientNames \ {""}
    /\ loc.file_size >= 1
    /\ splitext_lower[req.fname] \in {".jpg", ".jpeg", ".png", ".gif"}
    /\ loc.file_size <= MAX_FILE_SIZE
    /\ loc.image.format \in {"JPEG", "PNG", "GIF"}
    /\ loc.image.width <= MAX_DIMENSION

\* C7: an upload passes its steps only in the order content-type check,
\* boundary extraction, body read, parse, validation, filename generation,
\* file write, metadata write, success; a step that fails ends the request
\* with an error response; a file is written only by the write step, after
\* every check has passed, and a record is inserted only after the file was
\* written whole.
C7_UploadStepOrder ==
    /\ [][(req.kind = "upload" /\ pc \notin Terminal /\ pc' # pc)
            => \/ <<pc, pc'>> \in UploadEdges /\ resp'.status = IF pc' = "Succeeded" THEN 200 ELSE 0
               \/ pc' = "Aborted" /\ resp'.status \in {400, 411, 413, 500}]_vars
    /\ [][(req.kind = "upload" /\ pc \notin Terminal /\ files' # files)
            => \/ pc = "FilenameGenerated"
               \/ pc = "FileWritten" /\ pc' = "Aborted" /\ files' = files \ {f \in files : f.name = loc.unique_filename}]_vars
    /\ [][(req.kind = "upload" /\ pc \notin Terminal /\ rows' # rows)
            => /\ pc = "FileWritten"
               /\ [name |-> loc.unique_filename, size |-> loc.file_size] \in files
               /\ \E r \in rows' : rows' = rows \cup {r} /\ r.filename = loc.unique_filename]_vars
    /\ []((req.kind = "upload"
            /\ (pc \in {"Validated", "FilenameGenerated", "FileWritten", "Succeeded"}
                \/ ~NothingStored))
          => EveryCheckPassed)

\* An upload has passed every step.
C7_Witness ==
    /\ req.kind = "upload"
    /\ pc = "Succeeded"
    /\ resp.status = 200
    /\ ~NothingStored

\* C8 as claimed: a guarded request is answered 503 only if the store is
\* unreachable after a reconnect attempt made for that request; so a guarded
\* request during which the database is reachable throughout is not answered
\* 503.
C8_503OnlyWhenUnreachable ==
    (pc = "Done" /\ req.kind \in Guarded /\ resp.status = 503) => downSeen

\* C9 as claimed: an unreachable store is never reported as 404: a delete
\* request is not answered 404 when its lookup failed because the store was
\* unreachable.
C9_UnreachableIsNever404 ==
    (DeleteDone /\ resp.status = 404) => loc.lookup # "unreachable"

\* ceil(n / p)
CeilDiv(n, p) == CHOOSE k \in 0..n : k * p >= n /\ (k = 0 \/ (k - 1) * p < n)
N == Cardinality(rows)
Descending(sq) ==
    \A i, j \in 1..Len(sq) : i < j => sq[i].upload_time > sq[j].upload_time
\* sq is a page of the table: the right number of its rows, newest first.
IsPage(sq, page, per_page) ==
    /\ Len(sq) = Min(per_page, Max(0, N - (page - 1) * per_page))
    /\ Descending(sq)
    /\ \A i \in 1..Len(sq) : sq[i] \in rows
\* Both statements of the list page ran.
ListPageServed ==
    /\ pc = "Done"
    /\ req.kind = "list_page"
    /\ resp.status = 200
    /\ loc.ran_list
    /\ loc.ran_count
PagesOfGetImages ==
    \A page \in 1..(MaxPage + 1), per_page \in 1..MaxPerPage :
        IsPage(SelectPage(GetImagesQuery(page, per_page)), page, per_page)

\* C10 as claimed: with the store reachable, get_images(page, P) returns
\* min(P, max(0, N - (page-1)*P)) records, newest first, for every page >= 1,
\* the count equals N, and the list page reports ceil(N/P) pages, for every
\* N >= 0.
C10_PageCountIsCeil ==
    /\ PagesOfGetImages
    /\ ListPageServed
          => /\ IsPage(resp.body.images, loc.page, ITEMS_PER_PAGE)
             /\ resp.body.total_count = N
             /\ resp.body.total_pages = CeilDiv(N, ITEMS_PER_PAGE)

\* C10 amended: as claimed, but the list page reports max(1, ceil(N/P))
\* pages: 1, not 0, for an empty table.
C10_PageCountIsAtLeastOne ==
    /\ PagesOfGetImages
    /\ ListPageServed
          => /\ IsPage(resp.body.images, loc.page, ITEMS_PER_PAGE)
             /\ resp.body.total_count = N
             /\ resp.body.total_pages = Max(1, CeilDiv(N, ITEMS_PER_PAGE))

\* The last, partly filled page of a table of several pages is served.
C10_Witness ==
    /\ ListPageServed
    /\ loc.page = 3
    /\ Len(resp.body.images) = 1
    /\ resp.body.total_pages = 3
\* C11 as claimed: execute_query never raises to its caller: every call ends
\* with a return value, None when the statement failed.
C11_ExecuteQueryNeverRaises ==
    dbpc = "ret" => ret # Raised
\* connect() is running: in an attempt or in the delay after a failed one.
Connecting == dbpc \in {"connect", "sleep"}

\* C12: connect() makes at most max_retries attempts; an attempt that
\* succeeds ends it with the connection set; a failed attempt other than the
\* last is followed by the delay and the delay by the next attempt; the last
\* failed attempt ends it, without a delay, with connection = None; and every
\* call of connect() returns.
C12_ConnectTerminates ==
    /\ [](Connecting => attempt \in 0..(max_retries - 1))
    /\ [][(dbpc = "connect" /\ dbpc' # "connect")
            => \/ dbUp /\ conn' = "live" /\ ~Connecting'
               \/ ~dbUp /\ attempt < max_retries - 1 /\ dbpc' = "sleep"
                        /\ attempt' = attempt
               \/ ~dbUp /\ attempt = max_retries - 1 /\ conn' = "none"
                        /\ ~Connecting']_vars
    /\ [][(dbpc = "sleep" /\ dbpc' # "sleep")
            => dbpc' = "connect" /\ attempt' = attempt + 1]_vars
    /\ (dbpc = "connect" /\ attempt = 0) ~> ~Connecting

\* The tenth attempt of a call is made with the database down.
C12_Witness ==
    /\ dbpc = "connect"
    /\ attempt = max_retries - 1
    /\ ~dbUp
    /\ pc # "Starting"
\* The request is a file request on a path string, and it has been answered.
PathServed == pc = "Done" /\ req.kind \in {"get_static", "get_upload"}
RootOf(r) == Cwd \o <<"/">> \o (IF r.kind = "get_static" THEN STATIC_FILES_DIR ELSE UPLOAD_DIR)
\* The path has a traversal segment: one of its components is "..".
HasTraversal(p) == \E i \in 1..Len(Split(p)) : Split(p)[i] = <<".", ".">>
\* The content the response carries is that of a file outside the root.
ServesOutsideRoot ==
    /\ resp.status = 200
    /\ \A f \in DiskFiles :
          f.content = resp.body => ~StartsWith(f.path, RootOf(req) \o <<"/">>)

\* C13 as claimed: every request path with a traversal segment is rejected
\* with 403, and no response carries the content of a file outside the root.
C13_TraversalIs403 ==
    PathServed => /\ HasTraversal(req.path) => resp.status = 403
                  /\ ~ServesOutsideRoot

\* C13 amended: a file request is served by the last segment of its path
\* only: it is rejected with 403 exactly when that segment is "..", and
\* otherwise answered with the file of that name directly under the root
\* (200, or 500 when reading it fails) or with 404, whatever traversal
\* segments come before; no response carries the content of a file outside
\* the root.
C13_ServedByBasenameInsideRoot ==
    PathServed =>
        LET name   == Basename(req.path)
            target == RootOf(req) \o <<"/">> \o name
        IN  /\ resp.status = 403 <=> name = <<".", ".">>
            /\ resp.status \in {200, 500} <=> IsFile(target)
            /\ resp.status = 200 => resp.body = ContentOf(target)
            /\ resp.status \in {200, 403, 404, 500}
            /\ ~ServesOutsideRoot

\* A path that climbs out of the root to an existing outside file is answered
\* 404.
C13_Witness ==
    /\ PathServed
    /\ req.path = <<".", ".", "/", "g">>
    /\ resp.status = 404
\* The uploaded part is a valid image under the size ceiling.
ValidUpload(payload) == Decodable(payload) /\ Len(payload) <= MAX_FILE_SIZE

\* C14 as claimed: with the store reachable, every upload of a valid image
\* under the size ceiling with an allowed extension is answered 200, and the
\* GET of the returned filename that follows returns exactly the bytes of
\* the uploaded file part.
C14_RoundTripIsIdentity ==
    /\ (req.kind = "upload_part" /\ pc \in {"Succeeded", "Aborted"}
            /\ ValidUpload(req.payload) /\ conn = "live")
          => resp.status = 200
    /\ (req.kind = "get_returned" /\ pc = "Done" /\ ValidUpload(req.uploaded))
          => (resp.status = 200 /\ resp.body = req.uploaded)
\* The list data was served from a query that ran.
ListDataServed ==
    /\ pc = "Done"
    /\ req.kind = "list_data"
    /\ resp.status = 200
    /\ loc.ran

\* C15 as claimed: with the store reachable, the array GET /images-list-data
\* returns contains every row of the images table, for any number of rows.
C15_ListDataHoldsEveryRow ==
    ListDataServed
        => \A r \in rows : \E i \in 1..Len(resp.body.images) : resp.body.images[i] = r
\* The step starts the handler of a request.
StartsHandler ==
    \/ pc' \in {"Received", "Guard"} /\ (req' # req \/ pc' # pc)
    \/ pc' = "Done" /\ req'.kind = "get_image" /\ <<req, resp, pc>>' # <<req, resp, pc>>
\* The statement of the store call in progress is one of the running
\* handler's.
CallIsTheHandlers ==
    CASE pc = "DelLookup"   -> qry = GetImageQuery(req.id)
      [] pc = "DelRecord"   -> qry = DeleteImageQuery(req.id)
      [] pc = "DataQuery"   -> qry = GetImagesQuery(1, LIST_DATA_LIMIT)
      [] pc = "PageQuery"   -> qry = GetImagesQuery(loc.page, ITEMS_PER_PAGE)
      [] pc = "PageCount"   -> qry.op = "count"
      [] pc = "FileWritten" -> qry.op = "insert" /\ qry.filename = loc.unique_filename
      [] OTHER              -> FALSE

====
